---- MODULE Spec2Model ----
(***************************************************************************)
(* A model of ncdu's control core: the path/error tracker of               *)
(* src/dir_common.c, and the redraw/input scheduler and the command-line   *)
(* option parser of src/main.c.                                            *)
(*                                                                         *)
(* C strings are sequences of one-character strings; a NULL pointer is the *)
(* one-element sequence NULL, which no C string equals.                    *)
(***************************************************************************)
EXTENDS Integers, Sequences, FiniteSets, TLC

(***************************************************************************)
(* Bounds of the model.                                                    *)
(***************************************************************************)
\* longest path the tracker is driven to (dir_curpath grows without bound)
MaxPathLen == 4
\* longest path handed to dir_curpath_set and dir_setlasterr
MaxSetLen == 2
\* longest directory entry name handed to dir_curpath_enter
MaxNameLen == 1
\* most arguments after the program name, over CoreTokens
MaxArgs == 4
\* most arguments after the program name, over all tokens
MaxFlagArgs == 1
\* most arguments after an unusual program name
MaxProgArgs == 2
\* most input events pending when input_handle is called
MaxKeys == 2

NULL == <<"NULL">>

Min(a, b) == IF a < b THEN a ELSE b

\* all sequences over S of length lo..hi
SeqsOf(S, lo, hi) == UNION {[1..n -> S] : n \in lo..hi}

(***************************************************************************)
(* Path / error tracker (src/dir_common.c)                                 *)
(***************************************************************************)
VARIABLES
  dir_curpath,   \* char *dir_curpath
  curpathl,      \* allocated length of dir_curpath
  lasterr,       \* char *lasterr
  lasterrl,      \* allocated length of lasterr
  dir_fatalerr,  \* char *dir_fatalerr
  segv,          \* TRUE once a call dereferenced a NULL dir_curpath
  op,            \* name of the last tracker call
  arg,           \* its argument (NULL if it has none or was passed NULL)
  pre,           \* dir_curpath before the last call
  pre_enter      \* if the call before the last was dir_curpath_enter:
                 \* dir_curpath before that call; otherwise NULL

trackerVars == <<dir_curpath, curpathl, lasterr, lasterrl, dir_fatalerr, segv,
                 op, arg, pre, pre_enter>>

PathChars == {"/", "a"}
NameChars == {"a", "b"}
\* the paths a caller passes: any non-empty C string
Paths == SeqsOf(PathChars, 1, MaxSetLen)
\* the names of directory entries: non-empty, no "/"
Names == SeqsOf(NameChars, 1, MaxNameLen)
\* fatal error messages, already formatted
FatalErrAlloc == 1024

\* a message that does not fit the buffer of dir_seterr
LongMsg == [i \in 1..FatalErrAlloc |-> "E"]
Msgs == {<<"E", "1">>, <<"E", "2">>, LongMsg}

CurpathMinAlloc == 128

\* strrchr(s, '/') as an index into s, 0 for "not found"
StrRChrSlash(s) ==
  LET idx == {i \in 1..Len(s) : s[i] = "/"}
  IN IF idx = {} THEN 0 ELSE CHOOSE i \in idx : \A j \in idx : j <= i

\* curpath_resize(s): the new allocated length
CurpathResize(l, s) ==
  IF l < s
    THEN (IF s < CurpathMinAlloc THEN CurpathMinAlloc
          ELSE IF s < l * 2 THEN l * 2 ELSE s)
    ELSE l

\* the string dir_curpath_enter leaves in dir_curpath
CurpathEnter(cur, name) ==
  IF Len(cur) > 1   \* dir_curpath[1] is not the terminator
    THEN cur \o <<"/">> \o name
    ELSE cur \o name

\* a variant of CurpathLeave in which the string always ends after the slash
CurpathLeaveKeepingSlash(cur) ==
  LET tmp == StrRChrSlash(cur)
  IN IF tmp = 0 THEN <<"/">> ELSE SubSeq(cur, 1, tmp)

\* a variant of CurpathLeave in which the slash found is always overwritten,
\* the leading one too
CurpathLeaveCuttingRoot(cur) ==
  LET tmp == StrRChrSlash(cur)
  IN IF tmp = 0 THEN <<"/">> ELSE SubSeq(cur, 1, tmp - 1)

\* the string dir_curpath_leave leaves in dir_curpath
CurpathLeave(cur) ==
  LET tmp == StrRChrSlash(cur)
  IN IF tmp = 0 THEN <<"/">>
     ELSE IF tmp # 1 THEN SubSeq(cur, 1, tmp - 1)
     ELSE SubSeq(cur, 1, 1)

\* the string dir_setlasterr(path) copies into lasterr, path not NULL
LastErrCopied(cur, path) == cur

\* vsnprintf(dir_fatalerr, 1023, ...): at most 1022 characters are kept
FatalErrText(msg) == SubSeq(msg, 1, Min(Len(msg), FatalErrAlloc - 2))

Ghost(o, a) ==
  /\ op' = o
  /\ arg' = a
  /\ pre' = dir_curpath
  /\ pre_enter' = IF op = "enter" THEN pre ELSE NULL

\* a call that reads through a NULL dir_curpath ends the process
Crash ==
  /\ segv' = TRUE
  /\ UNCHANGED <<dir_curpath, curpathl, lasterr, lasterrl, dir_fatalerr,
                 op, arg, pre, pre_enter>>

DirCurpathSet(path) ==
  /\ ~segv
  /\ curpathl' = CurpathResize(curpathl, Len(path) + 1)
  /\ dir_curpath' = path
  /\ Ghost("set", path)
  /\ UNCHANGED <<lasterr, lasterrl, dir_fatalerr, segv>>

DirCurpathEnter(name) ==
  /\ ~segv
  /\ IF dir_curpath = NULL
       THEN Crash
       ELSE /\ Len(dir_curpath) + Len(name) + 1 <= MaxPathLen
            /\ curpathl' = CurpathResize(curpathl, Len(dir_curpath) + Len(name) + 2)
            /\ dir_curpath' = CurpathEnter(dir_curpath, name)
            /\ Ghost("enter", name)
            /\ UNCHANGED <<lasterr, lasterrl, dir_fatalerr, segv>>

DirCurpathLeave ==
  /\ ~segv
  /\ IF dir_curpath = NULL
       THEN Crash
       ELSE /\ dir_curpath' = CurpathLeave(dir_curpath)
            /\ Ghost("leave", NULL)
            /\ UNCHANGED <<curpathl, lasterr, lasterrl, dir_fatalerr, segv>>

\* dir_setlasterr(path); path = NULL is clear_error
DirSetLastErr(path) ==
  /\ ~segv
  /\ IF path = NULL
       THEN /\ lasterr' = NULL
            /\ lasterrl' = 0
            /\ Ghost("setlasterr", NULL)
            /\ UNCHANGED <<dir_curpath, curpathl, dir_fatalerr, segv>>
       ELSE IF dir_curpath = NULL
         THEN Crash
         ELSE LET req == Len(path) + 1
                  size == IF lasterrl < req THEN req ELSE lasterrl
                  copied == LastErrCopied(dir_curpath, path)
              IN \/ /\ lasterrl' = size
                    /\ lasterr' = copied
                    /\ Ghost("setlasterr", path)
                    /\ UNCHANGED <<dir_curpath, curpathl, dir_fatalerr, segv>>
                 \/ \* strcpy wrote past the end of lasterr: the process
                    \* may as well end here
                    /\ Len(copied) + 1 > size
                    /\ Crash

\* a variant of DirSetErr in which a fatal error already set is kept
DirSetErrKeepingFirst(msg) ==
  /\ ~segv
  /\ dir_fatalerr' = IF msg = NULL THEN NULL
                     ELSE IF dir_fatalerr # NULL THEN dir_fatalerr
                     ELSE FatalErrText(msg)
  /\ Ghost("seterr", msg)
  /\ UNCHANGED <<dir_curpath, curpathl, lasterr, lasterrl, segv>>

\* dir_seterr(fmt, ...); msg is the formatted text, NULL for fmt = NULL
DirSetErr(msg) ==
  /\ ~segv
  /\ dir_fatalerr' = IF msg = NULL THEN NULL ELSE FatalErrText(msg)
  /\ Ghost("seterr", msg)
  /\ UNCHANGED <<dir_curpath, curpathl, lasterr, lasterrl, segv>>

TrackerInit ==
  /\ dir_curpath = NULL
  /\ curpathl = 0
  /\ lasterr = NULL
  /\ lasterrl = 0
  /\ dir_fatalerr = NULL
  /\ segv = FALSE
  /\ op = "init"
  /\ arg = NULL
  /\ pre = NULL
  /\ pre_enter = NULL

(***************************************************************************)
(* Option parser (src/main.c)                                              *)
(***************************************************************************)
VARIABLES
  argparser_state, \* struct argparser: argv (the tokens not yet popped; argc
                   \* is its length), shortopt, last, last_arg, argsep
  conf,            \* the settings argv_parse and arg_option assign
  update_delay,    \* long update_delay
  ncurses_tty,     \* int ncurses_tty
  pc,              \* where main() stands. In argv_parse: "start", "next"
                   \* (about to call argparser_next in the loop condition),
                   \* "body" (in the loop body), "finish" (after the loop),
                   \* "done" (returned). Then "loop" (in main()'s loop),
                   \* "getch" (in a getch() of input_handle), "exited"
                   \* (main() returned). "died": die() was called; "exit":
                   \* exit(0) after the help or the version
  diekind,         \* which die() call ended the parse ("none" if none)
  dietxt,          \* the %s of its message
  argv0,           \* the argument vector main() was given
  out,             \* what the calls of argparser_next returned so far
  sepAt            \* index in argv0 of the "--" that set argsep, 0 if none

parserVars == <<argparser_state, conf, update_delay, ncurses_tty, pc, diekind,
                dietxt, argv0, out, sepAt>>

\* the string literals of main.c and the tokens of the argument vectors
StrTable ==
  ("-q" :> <<"-", "q">>)
  @@ ("--slow-ui-updates" :> <<"-", "-", "s", "l", "o", "w", "-", "u", "i", "-", "u", "p", "d", "a", "t", "e", "s">>)
  @@ ("--fast-ui-updates" :> <<"-", "-", "f", "a", "s", "t", "-", "u", "i", "-", "u", "p", "d", "a", "t", "e", "s">>)
  @@ ("-x" :> <<"-", "x">>)
  @@ ("--one-file-system" :> <<"-", "-", "o", "n", "e", "-", "f", "i", "l", "e", "-", "s", "y", "s", "t", "e", "m">>)
  @@ ("--cross-file-system" :> <<"-", "-", "c", "r", "o", "s", "s", "-", "f", "i", "l", "e", "-", "s", "y", "s", "t", "e", "m">>)
  @@ ("-e" :> <<"-", "e">>)
  @@ ("--extended" :> <<"-", "-", "e", "x", "t", "e", "n", "d", "e", "d">>)
  @@ ("--no-extended" :> <<"-", "-", "n", "o", "-", "e", "x", "t", "e", "n", "d", "e", "d">>)
  @@ ("-r" :> <<"-", "r">>)
  @@ ("-0" :> <<"-", "0">>)
  @@ ("-1" :> <<"-", "1">>)
  @@ ("-2" :> <<"-", "2">>)
  @@ ("--si" :> <<"-", "-", "s", "i">>)
  @@ ("--no-si" :> <<"-", "-", "n", "o", "-", "s", "i">>)
  @@ ("-L" :> <<"-", "L">>)
  @@ ("--follow-symlinks" :> <<"-", "-", "f", "o", "l", "l", "o", "w", "-", "s", "y", "m", "l", "i", "n", "k", "s">>)
  @@ ("--no-follow-symlinks" :> <<"-", "-", "n", "o", "-", "f", "o", "l", "l", "o", "w", "-", "s", "y", "m", "l", "i", "n", "k", "s">>)
  @@ ("--exclude" :> <<"-", "-", "e", "x", "c", "l", "u", "d", "e">>)
  @@ ("-X" :> <<"-", "X">>)
  @@ ("--exclude-form" :> <<"-", "-", "e", "x", "c", "l", "u", "d", "e", "-", "f", "o", "r", "m">>)
  @@ ("--exclude-caches" :> <<"-", "-", "e", "x", "c", "l", "u", "d", "e", "-", "c", "a", "c", "h", "e", "s">>)
  @@ ("--include-caches" :> <<"-", "-", "i", "n", "c", "l", "u", "d", "e", "-", "c", "a", "c", "h", "e", "s">>)
  @@ ("--exclude-kernfs" :> <<"-", "-", "e", "x", "c", "l", "u", "d", "e", "-", "k", "e", "r", "n", "f", "s">>)
  @@ ("--include-kernfs" :> <<"-", "-", "i", "n", "c", "l", "u", "d", "e", "-", "k", "e", "r", "n", "f", "s">>)
  @@ ("--follow-firmlinks" :> <<"-", "-", "f", "o", "l", "l", "o", "w", "-", "f", "i", "r", "m", "l", "i", "n", "k", "s">>)
  @@ ("--exclude-firmlinks" :> <<"-", "-", "e", "x", "c", "l", "u", "d", "e", "-", "f", "i", "r", "m", "l", "i", "n", "k", "s">>)
  @@ ("--confirm-quit" :> <<"-", "-", "c", "o", "n", "f", "i", "r", "m", "-", "q", "u", "i", "t">>)
  @@ ("--no-confirm-quit" :> <<"-", "-", "n", "o", "-", "c", "o", "n", "f", "i", "r", "m", "-", "q", "u", "i", "t">>)
  @@ ("--color" :> <<"-", "-", "c", "o", "l", "o", "r">>)
  @@ ("off" :> <<"o", "f", "f">>)
  @@ ("dark" :> <<"d", "a", "r", "k">>)
  @@ ("dark-bg" :> <<"d", "a", "r", "k", "-", "b", "g">>)
  @@ ("-v" :> <<"-", "v">>)
  @@ ("-V" :> <<"-", "V">>)
  @@ ("--version" :> <<"-", "-", "v", "e", "r", "s", "i", "o", "n">>)
  @@ ("-h" :> <<"-", "h">>)
  @@ ("-?" :> <<"-", "?">>)
  @@ ("--help" :> <<"-", "-", "h", "e", "l", "p">>)
  @@ ("-o" :> <<"-", "o">>)
  @@ ("-f" :> <<"-", "f">>)
  @@ ("-" :> <<"-">>)
  @@ ("." :> <<".">>)
  @@ ("--exclude-from" :> <<"-", "-", "e", "x", "c", "l", "u", "d", "e", "-", "f", "r", "o", "m">>)
  @@ ("ncdu" :> <<"n", "c", "d", "u">>)
  @@ ("--" :> <<"-", "-">>)
  @@ ("-weird" :> <<"-", "w", "e", "i", "r", "d">>)
  @@ ("*.tmp" :> <<"*", ".", "t", "m", "p">>)
  @@ ("/home" :> <<"/", "h", "o", "m", "e">>)
  @@ ("-rLx" :> <<"-", "r", "L", "x">>)
  @@ ("--si=1" :> <<"-", "-", "s", "i", "=", "1">>)
  @@ ("--exclude=*.tmp" :> <<"-", "-", "e", "x", "c", "l", "u", "d", "e", "=", "*", ".", "t", "m", "p">>)
  @@ ("-Xf" :> <<"-", "X", "f">>)
  @@ ("--p=v" :> <<"-", "-", "p", "=", "v">>)
  @@ ("-ab" :> <<"-", "a", "b">>)
  @@ ("--color=" :> <<"-", "-", "c", "o", "l", "o", "r", "=">>)
  @@ ("-z" :> <<"-", "z">>)
  @@ ("f" :> <<"f">>)

S(str) == StrTable[str]

\* strchr(s, '='): index of the first "=", 0 for "not found"
StrChrEq(s) ==
  LET idx == {i \in 1..Len(s) : s[i] = "="}
  IN IF idx = {} THEN 0 ELSE CHOOSE i \in idx : \A j \in idx : i <= j

\* argparser_pop: a is the token popped, NULL if none is left
ArgparserPop(p) ==
  IF Len(p.argv) = 0
    THEN [a |-> NULL, p |-> p]
    ELSE [a |-> Head(p.argv), p |-> [p EXCEPT !.argv = Tail(p.argv)]]

\* a variant of ArgparserShortopt in which the rest of the run is dropped
ArgparserShortoptDroppingRest(p, buf) ==
  [p EXCEPT !.shortopt = NULL, !.last = <<"-", buf[1]>>]

\* argparser_shortopt: the parser after it (it returns 1)
ArgparserShortopt(p, buf) ==
  [p EXCEPT !.shortopt = IF Len(buf) > 1 THEN Tail(buf) ELSE NULL,
            !.last = <<"-", buf[1]>>]

\* the long option token l split at its first "=" (*p->last_arg = 0)
LongOptSplit(p, l) ==
  LET eq == StrChrEq(l)
  IN IF eq = 0
       THEN [p EXCEPT !.last_arg = NULL]
       ELSE [p EXCEPT !.last = SubSeq(l, 1, eq - 1),
                      !.last_arg = SubSeq(l, eq + 1, Len(l))]

\* a variant of UnexpectedArg in which the value is missed when no token is left
UnexpectedArgOnlyBeforeToken(p) == p.last_arg # NULL /\ Len(p.argv) > 0

\* the test of argparser_next for an attached value nobody asked for
UnexpectedArg(p) == p.last_arg # NULL

\* a variant of IsPositional in which the separator flag is not looked at
IsPositionalIgnoringSep(p, l) == Len(l) = 0 \/ l[1] # "-"

\* the test of argparser_next for a positional argument
IsPositional(p, l) == p.argsep = 1 \/ Len(l) = 0 \/ l[1] # "-"

\* argparser_next: r is 0 (done), 1 (option), 2 (positional) or -1 when it
\* called die(); sep tells that this call read the "--" separator
RECURSIVE ArgparserNext(_)
ArgparserNext(p) ==
  IF UnexpectedArg(p)
    THEN [p |-> p, r |-> -1, die |-> "no_arg_expected", txt |-> p.last, sep |-> FALSE]
  ELSE IF p.shortopt # NULL
    THEN [p |-> ArgparserShortopt(p, p.shortopt), r |-> 1, die |-> "none",
          txt |-> NULL, sep |-> FALSE]
  ELSE
    LET q == ArgparserPop(p)
        l == q.a
        p1 == [q.p EXCEPT !.last = l]
    IN IF l = NULL
         THEN [p |-> p1, r |-> 0, die |-> "none", txt |-> NULL, sep |-> FALSE]
       ELSE IF IsPositional(p1, l)
         THEN [p |-> p1, r |-> 2, die |-> "none", txt |-> NULL, sep |-> FALSE]
       ELSE IF Len(l) = 1
         THEN [p |-> p1, r |-> -1, die |-> "invalid_option", txt |-> NULL, sep |-> FALSE]
       ELSE IF l[2] = "-" /\ Len(l) = 2
         THEN [ArgparserNext([p1 EXCEPT !.argsep = 1]) EXCEPT !.sep = TRUE]
       ELSE IF l[2] = "-"
         THEN [p |-> LongOptSplit(p1, l), r |-> 1, die |-> "none", txt |-> NULL,
               sep |-> FALSE]
       ELSE [p |-> ArgparserShortopt(p1, Tail(l)), r |-> 1, die |-> "none",
             txt |-> NULL, sep |-> FALSE]

\* a variant of ArgparserArg in which an attached value is passed over for the next token
ArgparserArgPassingAttached(p) ==
  IF p.shortopt # NULL
    THEN [val |-> p.shortopt, p |-> [p EXCEPT !.shortopt = NULL]]
  ELSE LET q == ArgparserPop(p) IN [val |-> q.a, p |-> q.p]

\* argparser_arg: val is the argument, NULL when it called die()
ArgparserArg(p) ==
  IF p.shortopt # NULL
    THEN [val |-> p.shortopt, p |-> [p EXCEPT !.shortopt = NULL]]
  ELSE IF p.last_arg # NULL
    THEN [val |-> p.last_arg, p |-> [p EXCEPT !.last_arg = NULL]]
  ELSE LET q == ArgparserPop(p) IN [val |-> q.a, p |-> q.p]

OPT(p, str) == p.last = S(str)

\* what a step of option handling yields: the return value (-1 after die()),
\* the parser, the settings, and whether and with what result ARG was used
Outcome(ret, p, c, ud) ==
  [ret |-> ret, p |-> p, conf |-> c, update_delay |-> ud, die |-> "none",
   txt |-> NULL, argreq |-> FALSE, argval |-> NULL]

Died(o, kind, txt) == [o EXCEPT !.ret = -1, !.die = kind, !.txt = txt]

\* ARG: the value of the option, or die() when there is none
ARG(p, c, ud) ==
  LET a == ArgparserArg(p)
      o == [Outcome(1, a.p, c, ud) EXCEPT !.argreq = TRUE, !.argval = a.val]
  IN IF a.val = NULL THEN Died(o, "requires_arg", p.last) ELSE o

\* the settings become c2 once ARG has returned a value
ThenStore(o, c2) == IF o.ret = 1 THEN [o EXCEPT !.conf = c2] ELSE o

StoreExclude(c, v) == [c EXCEPT !.excludes = Append(@, v)]
StoreExcludeFile(c, v) == [c EXCEPT !.exclude_files = Append(@, v)]
StoreExport(c, v) == [c EXCEPT !.export = v]
StoreImport(c, v) == [c EXCEPT !.import = v]
StoreColor(c, v) ==
  [c EXCEPT !.uic_theme = IF v = S("off") THEN 0
                          ELSE IF v = S("dark") THEN 1
                          ELSE IF v = S("dark-bg") THEN 2 ELSE @]

\* arg_option; openfail: exclude_addfile cannot open the file
ArgOption(p, c, ud, openfail) ==
  IF OPT(p, "-q") \/ OPT(p, "--slow-ui-updates") THEN Outcome(1, p, c, 2000)
  ELSE IF OPT(p, "--fast-ui-updates") THEN Outcome(1, p, c, 100)
  ELSE IF OPT(p, "-x") \/ OPT(p, "--one-file-system")
    THEN Outcome(1, p, [c EXCEPT !.dir_scan_smfs = 1], ud)
  ELSE IF OPT(p, "--cross-file-system")
    THEN Outcome(1, p, [c EXCEPT !.dir_scan_smfs = 0], ud)
  ELSE IF OPT(p, "-e") \/ OPT(p, "--extended")
    THEN Outcome(1, p, [c EXCEPT !.extended_info = 1], ud)
  ELSE IF OPT(p, "--no-extended")
    THEN Outcome(1, p, [c EXCEPT !.extended_info = 0], ud)
  ELSE IF OPT(p, "-r") THEN Outcome(1, p, [c EXCEPT !.read_only = @ + 1], ud)
  ELSE IF OPT(p, "-0") THEN Outcome(1, p, [c EXCEPT !.dir_ui = 0], ud)
  ELSE IF OPT(p, "-1") THEN Outcome(1, p, [c EXCEPT !.dir_ui = 1], ud)
  ELSE IF OPT(p, "-2") THEN Outcome(1, p, [c EXCEPT !.dir_ui = 2], ud)
  ELSE IF OPT(p, "--si") THEN Outcome(1, p, [c EXCEPT !.si = 1], ud)
  ELSE IF OPT(p, "--no-si") THEN Outcome(1, p, [c EXCEPT !.si = 0], ud)
  ELSE IF OPT(p, "-L") \/ OPT(p, "--follow-symlinks")
    THEN Outcome(1, p, [c EXCEPT !.follow_symlinks = 1], ud)
  ELSE IF OPT(p, "--no-follow-symlinks")
    THEN Outcome(1, p, [c EXCEPT !.follow_symlinks = 0], ud)
  ELSE IF OPT(p, "--exclude") THEN ThenStore(ARG(p, c, ud), StoreExclude(c, ARG(p, c, ud).argval))
  ELSE IF OPT(p, "-X") \/ OPT(p, "--exclude-form")
    THEN LET o == ThenStore(ARG(p, c, ud), StoreExcludeFile(c, ARG(p, c, ud).argval))
         IN IF o.ret = 1 /\ openfail
              THEN Died([o EXCEPT !.conf = c], "cant_open", o.argval)
              ELSE o
  ELSE IF OPT(p, "--exclude-caches")
    THEN Outcome(1, p, [c EXCEPT !.cachedir_tags = 1], ud)
  ELSE IF OPT(p, "--include-caches")
    THEN Outcome(1, p, [c EXCEPT !.cachedir_tags = 0], ud)
  ELSE IF OPT(p, "--exclude-kernfs")
    THEN Outcome(1, p, [c EXCEPT !.exclude_kernfs = 1], ud)
  ELSE IF OPT(p, "--include-kernfs")
    THEN Outcome(1, p, [c EXCEPT !.exclude_kernfs = 0], ud)
  ELSE IF OPT(p, "--follow-firmlinks")
    THEN Outcome(1, p, [c EXCEPT !.follow_firmlinks = 1], ud)
  ELSE IF OPT(p, "--exclude-firmlinks")
    THEN Outcome(1, p, [c EXCEPT !.follow_firmlinks = 0], ud)
  ELSE IF OPT(p, "--confirm-quit")
    THEN Outcome(1, p, [c EXCEPT !.confirm_quit = 1], ud)
  ELSE IF OPT(p, "--no-confirm-quit")
    THEN Outcome(1, p, [c EXCEPT !.confirm_quit = 0], ud)
  ELSE IF OPT(p, "--color")
    THEN LET o == ThenStore(ARG(p, c, ud), StoreColor(c, ARG(p, c, ud).argval))
         IN IF o.ret = 1 /\ o.argval \notin {S("off"), S("dark"), S("dark-bg")}
              THEN Died(o, "unknown_color", o.argval)
              ELSE o
  ELSE Outcome(0, p, c, ud)

\* the body of argv_parse's loop for r = 1; ret = 2 stands for exit(0)
OptionBody(p, c, ud, openfail) ==
  IF OPT(p, "-v") \/ OPT(p, "-V") \/ OPT(p, "--version") THEN Outcome(2, p, c, ud)
  ELSE IF OPT(p, "-h") \/ OPT(p, "-?") \/ OPT(p, "--help") THEN Outcome(2, p, c, ud)
  ELSE IF OPT(p, "-o") THEN ThenStore(ARG(p, c, ud), StoreExport(c, ARG(p, c, ud).argval))
  ELSE IF OPT(p, "-f") THEN ThenStore(ARG(p, c, ud), StoreImport(c, ARG(p, c, ud).argval))
  ELSE LET o == ArgOption(p, c, ud, openfail)
       IN IF o.ret = 0 THEN Died(o, "unknown_option", p.last) ELSE o

ParserZero ==
  [argv |-> <<>>, shortopt |-> NULL, last |-> NULL, last_arg |-> NULL, argsep |-> 0]

ConfInit ==
  [dir_scan_smfs |-> 0, extended_info |-> 0, read_only |-> 0, dir_ui |-> 0,
   si |-> 0, follow_symlinks |-> 0, excludes |-> <<>>, exclude_files |-> <<>>,
   cachedir_tags |-> 0, exclude_kernfs |-> 0, follow_firmlinks |-> 1,
   confirm_quit |-> 0, uic_theme |-> 0, export |-> NULL, import |-> NULL,
   dir |-> NULL]

\* the process as main() is entered with argument vector a
ParserInit(a) ==
  /\ argparser_state = ParserZero
  /\ conf = ConfInit
  /\ update_delay = 100
  /\ ncurses_tty = 0
  /\ pc = "start"
  /\ diekind = "none"
  /\ dietxt = NULL
  /\ argv0 = a
  /\ out = <<>>
  /\ sepAt = 0

\* what a returning call of argparser_next adds to out
Emission(res) ==
  [r |-> res.r, last |-> res.p.last, idx |-> Len(argv0) - Len(res.p.argv),
   rem |-> res.p.shortopt, att |-> res.p.last_arg, argreq |-> FALSE,
   argval |-> NULL]

\* the bookkeeping common to the two places that call argparser_next; p is
\* the parser the call starts from
AfterNext(p, res, onward) ==
  /\ argparser_state' = res.p
  /\ sepAt' = IF res.sep THEN Len(argv0) - Len(p.argv) + 1 ELSE sepAt
  /\ out' = IF res.r \in {1, 2} THEN Append(out, Emission(res)) ELSE out
  /\ diekind' = res.die
  /\ dietxt' = res.txt
  /\ pc' = IF res.r = -1 THEN "died" ELSE onward

\* argv_parse up to its loop: the defaults, and the call of argparser_next
\* that skips the program name
ArgvParseStart ==
  /\ pc = "start"
  /\ \E no_color \in BOOLEAN :
       conf' = [conf EXCEPT !.uic_theme = IF no_color THEN 0 ELSE 2,
                            !.dir_ui = -1, !.si = 0]
  /\ LET p == [ParserZero EXCEPT !.argv = argv0]
     IN AfterNext(p, ArgparserNext(p), "next")
  /\ UNCHANGED <<update_delay, ncurses_tty, argv0>>

\* the loop condition of argv_parse: r = argparser_next(&argparser_state)
ArgvParseNext ==
  /\ pc = "next"
  /\ LET res == ArgparserNext(argparser_state)
     IN AfterNext(argparser_state, res, IF res.r = 0 THEN "finish" ELSE "body")
  /\ UNCHANGED <<conf, update_delay, ncurses_tty, argv0>>

\* the loop body of argv_parse
ArgvParseBody ==
  /\ pc = "body"
  /\ LET e == out[Len(out)]
     IN IF e.r = 2
          THEN /\ conf' = [conf EXCEPT !.dir = argparser_state.last]
               /\ pc' = "next"
               /\ UNCHANGED <<argparser_state, update_delay, diekind, dietxt, out>>
          ELSE \E openfail \in BOOLEAN :
                 LET o == OptionBody(argparser_state, conf, update_delay, openfail)
                 IN /\ argparser_state' = o.p
                    /\ conf' = o.conf
                    /\ update_delay' = o.update_delay
                    /\ diekind' = o.die
                    /\ dietxt' = o.txt
                    /\ out' = [out EXCEPT ![Len(out)].argreq = o.argreq,
                                          ![Len(out)].argval = o.argval]
                    /\ pc' = IF o.ret = -1 THEN "died"
                             ELSE IF o.ret = 2 THEN "exit" ELSE "next"
  /\ UNCHANGED <<ncurses_tty, argv0, sepAt>>

\* argv_parse after its loop; have_statfs: the build has statfs (Linux),
\* exportfail / importfail: dir_export_init / dir_import_init fails
ArgvParseFinish ==
  /\ pc = "finish"
  /\ \E have_statfs, exportfail, importfail \in BOOLEAN :
       IF ~have_statfs /\ conf.exclude_kernfs # 0
         THEN /\ pc' = "died"
              /\ diekind' = "kernfs_unsupported"
              /\ dietxt' = NULL
              /\ UNCHANGED <<conf, ncurses_tty>>
       ELSE IF conf.export # NULL /\ exportfail
         THEN /\ pc' = "died"
              /\ diekind' = "cant_open"
              /\ dietxt' = conf.export
              /\ UNCHANGED <<conf, ncurses_tty>>
       ELSE IF conf.import # NULL /\ importfail
         THEN /\ pc' = "died"
              /\ diekind' = "cant_open"
              /\ dietxt' = conf.import
              /\ ncurses_tty' = IF conf.export = S("-") THEN 1 ELSE ncurses_tty
              /\ UNCHANGED conf
       ELSE /\ pc' = "done"
            /\ ncurses_tty' = IF conf.export = S("-") \/ conf.import = S("-")
                                THEN 1 ELSE ncurses_tty
            /\ conf' = IF conf.dir_ui = -1
                         THEN [conf EXCEPT !.dir_ui =
                                 IF conf.export = S("-") THEN 0
                                 ELSE IF conf.export # NULL THEN 1 ELSE 2]
                         ELSE conf
            /\ UNCHANGED <<diekind, dietxt>>
  /\ UNCHANGED <<argparser_state, update_delay, argv0, out, sepAt>>

\* the argument vectors the parser is run on
CoreTokens ==
  {S("-x"), S("-q"), S("--"), S("-weird"), S("--exclude"), S("*.tmp"), S("/home")}

\* the flags of the command line interface
CliFlags ==
  {S("-q"), S("--slow-ui-updates"), S("--fast-ui-updates"), S("-x"),
   S("--one-file-system"), S("--cross-file-system"), S("-e"), S("--extended"),
   S("--no-extended"), S("-r"), S("-0"), S("-1"), S("-2"), S("--si"),
   S("--no-si"), S("-L"), S("--follow-symlinks"), S("--no-follow-symlinks"),
   S("--exclude"), S("-X"), S("--exclude-from"), S("--exclude-caches"),
   S("--include-caches"), S("--exclude-kernfs"), S("--include-kernfs"),
   S("--follow-firmlinks"), S("--exclude-firmlinks"), S("--confirm-quit"),
   S("--no-confirm-quit"), S("--color"), S("-o"), S("-f"), S("-h"), S("-?"),
   S("--help"), S("-v"), S("-V"), S("--version")}

OtherTokens ==
  {S("-"), S("--"), S("-rLx"), S("--si=1"), S("--exclude=*.tmp"), S("-Xf"),
   S("--color="), S("-z"), S("--exclude-form"), S("dark"), S("f"), S("/home")}

\* tokens that follow a flag as its value
ValueTokens == CoreTokens \cup {S("dark"), S("-")}

ProgNames == {S("--"), S("--p=v"), S("-ab"), S("-")}

Argvs ==
  {<<>>}
  \cup {<<S("ncdu")>> \o a : a \in SeqsOf(CoreTokens, 0, MaxArgs)}
  \cup {<<n>> \o a : n \in ProgNames, a \in SeqsOf(CoreTokens, 0, MaxProgArgs)}
  \cup {<<S("ncdu"), f>> \o a :
           f \in CliFlags \cup OtherTokens, a \in SeqsOf(ValueTokens, 0, MaxFlagArgs)}

\* the argument vectors of the runs that go on into main()'s loop
MainArgvs == {<<S("ncdu")>>, <<S("ncdu"), S("-q"), S("-0")>>}

(***************************************************************************)
(* Redraw / input scheduler and application driver (src/main.c)            *)
(***************************************************************************)
VARIABLES
  pstate,        \* int pstate: the active mode
  min_rows,      \* static int min_rows
  min_cols,      \* static int min_cols
  ncurses_init,  \* static int ncurses_init
  lastupdate,    \* static long lastupdate
  tick           \* the last (or the running) call of input_handle: who
                 \* called it, its wait, whether it is still in its getch()
                 \* loop, its return value, the time bucket it computed,
                 \* lastupdate and ncurses_init before it, the number of
                 \* views it drew and
                 \* the last one, the number of getch() calls, and the last
                 \* value getch() returned with the mode it was read in and
                 \* the handler it went to; whether its throttle redrew
                 \* (tdraw), the bucket the throttled tick before it
                 \* computed (pb, -1 when there was none), and the number of
                 \* throttle redraws of the run of throttled ticks that
                 \* computed its bucket (rundraws); what ncresize() reported
                 \* when the last getch() returned KEY_RESIZE (rs); errno
                 \* when getch() returned ERR (eno)

schedVars == <<pstate, min_rows, min_cols, ncurses_init, lastupdate, tick>>

Modes == {"ST_CALC", "ST_BROWSE", "ST_HELP", "ST_SHELL", "ST_DEL", "ST_QUIT"}

MinRowsInit == 17
MinColsInit == 60
LastUpdateInit == 999

\* a variant of DirKey in which the fatal error is not looked at
DirKeyIgnoringFatal(fatalerr, ch) ==
  IF ch = "q" THEN 1 ELSE 0

\* dir_key
DirKey(fatalerr, ch) ==
  IF fatalerr # NULL THEN 1
  ELSE IF ch = "q" THEN 1
  ELSE 0

\* dir_draw: browse_draw(), then the error box or the progress box
DirDraw(fatalerr) ==
  IF fatalerr # NULL THEN "draw_error" ELSE "draw_progress"

\* screen_draw: the view drawn in mode m, "none" when the switch has no case
ScreenDraw(m, fatalerr) ==
  CASE m = "ST_CALC" -> DirDraw(fatalerr)
    [] m = "ST_BROWSE" -> "browse_draw"
    [] m = "ST_HELP" -> "help_draw"
    [] m = "ST_SHELL" -> "shell_draw"
    [] m = "ST_DEL" -> "delete_draw"
    [] m = "ST_QUIT" -> "quit_draw"
    [] OTHER -> "none"

\* a variant of KeyDispatch in which the case of ST_HELP is missing
KeyDispatchWithoutHelp(m) ==
  CASE m = "ST_CALC" -> "dir_key"
    [] m = "ST_BROWSE" -> "browse_key"
    [] m = "ST_DEL" -> "delete_key"
    [] m = "ST_QUIT" -> "quit_key"
    [] OTHER -> "none"

\* the switch of input_handle on a key: the handler the key is returned
\* through, "none" when the switch has no case for the mode
KeyDispatch(m) ==
  CASE m = "ST_CALC" -> "dir_key"
    [] m = "ST_BROWSE" -> "browse_key"
    [] m = "ST_HELP" -> "help_key"
    [] m = "ST_DEL" -> "delete_key"
    [] m = "ST_QUIT" -> "quit_key"
    [] OTHER -> "none"

\* the key handlers of the other modes return a signal of their own choice,
\* sig, and may switch the mode; quit_key always returns 1
KeyHandlerRet(h, fatalerr, ch, sig) ==
  IF h = "dir_key" THEN DirKey(fatalerr, ch)
  ELSE IF h = "quit_key" THEN 1
  ELSE sig

KeyHandlerMode(h, m, newmode) == IF h = "dir_key" THEN m ELSE newmode

\* the time bucket of a throttled tick
Bucket(now, ud) == (1000 * (now.sec % 1000) + (now.usec \div 1000)) \div ud

\* a variant of FatalErrno in which EIO is not tested
FatalErrnoWithoutEio(eno) == eno \in {"EPIPE", "EBADF"}

\* the errno values after which input_handle returns 1
FatalErrno(eno) == eno \in {"EPIPE", "EBADF", "EIO"}

\* a variant of NoCursesRet that returns 0 whatever wait is
NoCursesRetAlwaysZero(wait) == 0

\* the return value of input_handle while ncurses is not initialized
NoCursesRet(wait) == IF wait = 0 THEN 1 ELSE 0

\* a variant of ThrottleDraws in which every throttled tick redraws
ThrottleDrawsAlways(last, b) == TRUE

\* a variant of ThrottleDraws in which only a later bucket redraws
ThrottleDrawsForwardOnly(last, b) == last < b

\* whether a throttled tick that computed bucket b redraws
ThrottleDraws(last, b) == last # b

\* a variant of Renegotiate in which a failure zeroes min_rows only
RenegotiateRowsOnly(rows, cols, fail) ==
  IF fail THEN <<0, cols>> ELSE <<rows, cols>>

\* if(ncresize(min_rows, min_cols)) min_rows = min_cols = 0: the thresholds
\* <<min_rows, min_cols>> after ncresize() reported failure or not
Renegotiate(rows, cols, fail) ==
  IF fail THEN <<0, 0>> ELSE <<rows, cols>>

\* init_nc; how: what the terminal does ("ok", "small": ncresize fails,
\* "fail": /dev/tty cannot be opened, stdin is no tty, or ncurses fails)
InitNc(st, how) ==
  IF st.ncurses_init # 0 THEN [st |-> st, die |-> "none"]
  ELSE IF how = "fail"
    THEN [st |-> [st EXCEPT !.ncurses_init = 1], die |-> "init_nc"]
  ELSE LET mins == Renegotiate(st.min_rows, st.min_cols, how = "small")
       IN [st |-> [st EXCEPT !.ncurses_init = 1,
                             !.min_rows = mins[1],
                             !.min_cols = mins[2]],
           die |-> "none"]

TickInit ==
  [caller |-> "none", wait |-> 0, running |-> FALSE, ret |-> 0, bucket |-> -1,
   prev |-> LastUpdateInit, nc |-> 0, ndraws |-> 0, view |-> "none", reads |-> 0,
   ch |-> "none", chmode |-> "none", handler |-> "none",
   tdraw |-> FALSE, pb |-> -1, rundraws |-> 0, rs |-> "none",
   eno |-> "none"]

SchedInit ==
  /\ pstate = "ST_CALC"
  /\ min_rows = MinRowsInit
  /\ min_cols = MinColsInit
  /\ ncurses_init = 0
  /\ lastupdate = LastUpdateInit
  /\ tick = TickInit

SchedState ==
  [pstate |-> pstate, min_rows |-> min_rows, min_cols |-> min_cols,
   ncurses_init |-> ncurses_init, lastupdate |-> lastupdate]

SetSched(d) ==
  /\ pstate' = d.pstate
  /\ min_rows' = d.min_rows
  /\ min_cols' = d.min_cols
  /\ ncurses_init' = d.ncurses_init
  /\ lastupdate' = d.lastupdate

\* the inputs of a tick
Times == {[sec |-> 0, usec |-> 0], [sec |-> 0, usec |-> 900000],
          [sec |-> 99, usec |-> 900000], [sec |-> 1000, usec |-> 0]}
Keys == {"q", "x"}
Errnos == {"0", "EPIPE", "EBADF", "EIO", "EINTR"}

\* where main() goes on when a call made by `caller` returns ret
ReturnTo(caller, ret) ==
  IF caller = "main" /\ ret # 0 THEN "exited" ELSE "loop"

\* input_handle(wait) from its entry to its first getch() (or to its return
\* when ncurses is not initialized), in scheduler state st; now is what
\* gettimeofday() returns
InputHandleEnter(st, caller, wait, now) ==
  LET b == Bucket(now, update_delay)
      redraw == IF wait # 1 THEN TRUE ELSE ThrottleDraws(st.lastupdate, b)
      pb == IF tick.caller # "none" /\ tick.wait = 1 THEN tick.bucket ELSE tick.pb
      t == [TickInit EXCEPT
              !.caller = caller, !.wait = wait,
              !.tdraw = (wait = 1 /\ redraw),
              !.pb = pb,
              !.rundraws = IF wait # 1 THEN tick.rundraws
                           ELSE Min(2, (IF b = pb THEN tick.rundraws ELSE 0)
                                       + (IF redraw THEN 1 ELSE 0)),
              !.bucket = IF wait = 1 THEN b ELSE -1,
              !.prev = st.lastupdate,
              !.nc = st.ncurses_init,
              !.ndraws = IF redraw THEN 1 ELSE 0,
              !.view = IF redraw THEN ScreenDraw(st.pstate, dir_fatalerr) ELSE "none"]
  IN /\ SetSched([st EXCEPT !.lastupdate = IF wait = 1 /\ redraw THEN b ELSE @])
     /\ IF st.ncurses_init = 0
          THEN /\ tick' = [t EXCEPT !.ret = NoCursesRet(wait)]
               /\ pc' = ReturnTo(caller, NoCursesRet(wait))
          ELSE /\ tick' = [t EXCEPT !.running = TRUE]
               /\ pc' = "getch"

\* a call of input_handle by the code of a mode (the scan, the browser, ...)
CallInputHandle ==
  /\ pc = "loop"
  /\ \E wait \in {-1, 0, 1} :
       \E now \in (IF wait = 1 THEN Times ELSE {[sec |-> 0, usec |-> 0]}) :
         InputHandleEnter(SchedState, "mode", wait, now)
  /\ UNCHANGED <<diekind, dietxt>>

\* getch() returns KEY_RESIZE; fail: ncresize reports failure
GetchResize ==
  /\ pc = "getch"
  /\ tick.reads < MaxKeys
  /\ \E fail \in BOOLEAN :
       LET mins == Renegotiate(min_rows, min_cols, fail)
       IN /\ min_rows' = mins[1]
          /\ min_cols' = mins[2]
          /\ tick' = [tick EXCEPT !.reads = @ + 1, !.ch = "KEY_RESIZE",
                                  !.chmode = pstate, !.handler = "none",
                                  !.ndraws = @ + 1,
                                  !.view = ScreenDraw(pstate, dir_fatalerr),
                                  !.rs = IF fail THEN "fail" ELSE "ok"]
  /\ UNCHANGED <<pstate, ncurses_init, lastupdate, pc, diekind, dietxt>>

\* getch() returns a key; sig and newmode are what the key handler of
\* another mode than the scan returns and the mode it leaves
GetchKey ==
  /\ pc = "getch"
  /\ tick.reads < MaxKeys
  /\ \E ch \in Keys :
       LET h == KeyDispatch(pstate)
           t == [tick EXCEPT !.reads = @ + 1, !.ch = ch, !.chmode = pstate,
                             !.handler = h, !.rs = "none"]
       IN IF h = "none"
            THEN /\ tick' = [t EXCEPT !.ndraws = @ + 1,
                                      !.view = ScreenDraw(pstate, dir_fatalerr)]
                 /\ UNCHANGED <<pstate, pc>>
            ELSE \E sig \in (IF h \in {"dir_key", "quit_key"} THEN {0} ELSE {0, 1}),
                    newmode \in (IF h = "dir_key" THEN {pstate} ELSE Modes) :
                   LET ret == KeyHandlerRet(h, dir_fatalerr, ch, sig)
                   IN /\ tick' = [t EXCEPT !.ret = ret, !.running = FALSE]
                      /\ pstate' = KeyHandlerMode(h, pstate, newmode)
                      /\ pc' = ReturnTo(tick.caller, ret)
  /\ UNCHANGED <<min_rows, min_cols, ncurses_init, lastupdate, diekind, dietxt>>

\* getch() returns ERR, leaving eno in errno
GetchErr ==
  /\ pc = "getch"
  /\ \E eno \in Errnos :
       LET ret == IF FatalErrno(eno) THEN 1 ELSE 0
       IN /\ tick' = [tick EXCEPT !.reads = @ + 1, !.ch = "ERR", !.chmode = pstate,
                                  !.handler = "none", !.ret = ret,
                                  !.running = FALSE, !.rs = "none",
                                  !.eno = eno]
          /\ pc' = ReturnTo(tick.caller, ret)
  /\ UNCHANGED <<pstate, min_rows, min_cols, ncurses_init, lastupdate, diekind,
                 dietxt>>

\* main() between argv_parse and its loop
MainStart ==
  /\ pc = "done"
  /\ \E how \in {"ok", "small", "fail"} :
       LET i == IF conf.dir_ui = 2 THEN InitNc(SchedState, how)
                ELSE [st |-> SchedState, die |-> "none"]
       IN /\ SetSched(i.st)
          /\ diekind' = i.die
          /\ pc' = IF i.die # "none" THEN "died" ELSE "loop"
  /\ UNCHANGED <<dietxt, tick>>

\* one iteration of main()'s loop, up to the first getch() of the
\* input_handle(0) it may call; dir_process and delete_process return sig
\* and leave the mode newmode
MainLoop ==
  /\ pc = "loop"
  /\ IF pstate = "ST_CALC"
       THEN \E sig \in {0, 1}, newmode \in {"ST_CALC", "ST_BROWSE"} :
              /\ pstate' = newmode
              /\ pc' = IF sig = 1 THEN "exited" ELSE "loop"
              /\ UNCHANGED <<min_rows, min_cols, ncurses_init, lastupdate,
                             diekind, tick>>
       ELSE \E how \in {"ok", "small", "fail"} :
              LET i == InitNc(SchedState, how)
              IN IF i.die # "none"
                   THEN /\ SetSched(i.st)
                        /\ diekind' = i.die
                        /\ pc' = "died"
                        /\ UNCHANGED tick
                 ELSE IF pstate = "ST_DEL"
                   THEN \E newmode \in Modes :
                          /\ SetSched([i.st EXCEPT !.pstate = newmode])
                          /\ UNCHANGED <<pc, diekind, tick>>
                 ELSE /\ InputHandleEnter(i.st, "main", 0, [sec |-> 0, usec |-> 0])
                      /\ UNCHANGED diekind
  /\ UNCHANGED dietxt

(***************************************************************************)
(* Specifications                                                          *)
(***************************************************************************)
vars == <<trackerVars, parserVars, schedVars>>

CallSet == (\E p \in Paths : DirCurpathSet(p)) /\ UNCHANGED <<parserVars, schedVars>>
CallEnter == (\E n \in Names : DirCurpathEnter(n)) /\ UNCHANGED <<parserVars, schedVars>>
CallLeave == DirCurpathLeave /\ UNCHANGED <<parserVars, schedVars>>
CallSetLastErr ==
  (\E p \in Paths \cup {NULL} : DirSetLastErr(p)) /\ UNCHANGED <<parserVars, schedVars>>
CallSetErr == (\E m \in Msgs \cup {NULL} : DirSetErr(m)) /\ UNCHANGED <<parserVars, schedVars>>

InitTracker == TrackerInit /\ ParserInit(<<S("ncdu")>>) /\ SchedInit

NextPath == CallSet \/ CallEnter \/ CallLeave

NextTracker == NextPath \/ CallSetLastErr \/ CallSetErr

\* dir_draw() called by screen_draw while the scan is the mode; arg keeps
\* the name of the call made before it
CallDirDraw ==
  /\ ~segv
  /\ tick' = [tick EXCEPT !.view = DirDraw(dir_fatalerr), !.ndraws = 1]
  /\ op' = "draw"
  /\ arg' = <<op>>
  /\ UNCHANGED <<dir_curpath, curpathl, lasterr, lasterrl, dir_fatalerr, segv,
                 pre, pre_enter>>
  /\ UNCHANGED <<parserVars, pstate, min_rows, min_cols, ncurses_init, lastupdate>>

NextFatal == NextPath \/ CallSetErr \/ CallDirDraw

\* the fatal error of the scan: set, replaced, cleared and drawn
SpecFatal == InitTracker /\ [][NextFatal]_vars

\* an absolute path in normal form: it begins with "/", has no empty
\* component and no trailing "/" unless it is "/"
IsAbsPath(p) ==
  /\ Len(p) >= 1 /\ p[1] = "/"
  /\ Len(p) > 1 => p[Len(p)] # "/"
  /\ \A i \in 1..(Len(p) - 1) : ~(p[i] = "/" /\ p[i + 1] = "/")

\* the paths a scan of an absolute root starts from
AbsPaths ==
  {p \in SeqsOf(PathChars \cup NameChars, 1, MaxPathLen) : IsAbsPath(p)}

CallSetAbs ==
  (\E p \in AbsPaths : DirCurpathSet(p)) /\ UNCHANGED <<parserVars, schedVars>>

NextAbsPath == CallSetAbs \/ CallEnter \/ CallLeave

\* the path tracker when every path set is an absolute path in normal form
SpecAbsPath == InitTracker /\ [][NextAbsPath]_vars

\* the path tracker alone: set, enter, leave
SpecPath == InitTracker /\ [][NextPath]_vars

\* the path / error tracker
SpecTracker == InitTracker /\ [][NextTracker]_vars

InitArgs == TrackerInit /\ SchedInit /\ \E a \in Argvs : ParserInit(a)

NextArgs ==
  \/ ArgvParseStart /\ UNCHANGED <<trackerVars, schedVars>>
  \/ ArgvParseNext /\ UNCHANGED <<trackerVars, schedVars>>
  \/ ArgvParseBody /\ UNCHANGED <<trackerVars, schedVars>>
  \/ ArgvParseFinish /\ UNCHANGED <<trackerVars, schedVars>>

\* argv_parse run on each argument vector of Argvs
SpecArgs == InitArgs /\ [][NextArgs]_vars

InitMain == TrackerInit /\ SchedInit /\ \E a \in MainArgvs : ParserInit(a)

schedFrame == <<argparser_state, conf, update_delay, ncurses_tty, argv0, out, sepAt>>

\* a fatal error of the scan, or its clearing
ScanSetErr ==
  /\ pc = "loop"
  /\ \E m \in {NULL, <<"E", "1">>} : DirSetErr(m)
  /\ UNCHANGED <<parserVars, schedVars>>

NextMain ==
  \/ NextArgs
  \/ MainStart /\ UNCHANGED <<trackerVars, schedFrame>>
  \/ MainLoop /\ UNCHANGED <<trackerVars, schedFrame>>
  \/ CallInputHandle /\ UNCHANGED <<trackerVars, schedFrame>>
  \/ GetchResize /\ UNCHANGED <<trackerVars, schedFrame>>
  \/ GetchKey /\ UNCHANGED <<trackerVars, schedFrame>>
  \/ GetchErr /\ UNCHANGED <<trackerVars, schedFrame>>
  \/ ScanSetErr

\* main(): argv_parse, then the loop, with the ticks and the fatal errors
\* of the code the loop runs
SpecMain == InitMain /\ [][NextMain]_vars

(***************************************************************************)
(* Claims about the path / error tracker                                   *)
(***************************************************************************)

\* C1: round-trip law: dir_curpath_enter(name) immediately followed by
\* dir_curpath_leave() leaves dir_curpath equal to the string it held before
\* the pair, for every starting path and every name.
C1_RoundTrip ==
  (op = "leave" /\ pre_enter # NULL) => dir_curpath = pre_enter

\* C2: dir_curpath_enter(name) appends "/" and name to every current path
\* other than exactly "/", and appends name directly only when the current
\* path is exactly "/".
C2_EnterAppends ==
  op = "enter" =>
    dir_curpath = IF pre = <<"/">> THEN pre \o arg ELSE pre \o <<"/">> \o arg

\* C3: dir_setlasterr(path) with a non-NULL path makes lasterr equal to the
\* path passed, whatever was recorded before and whatever dir_curpath holds,
\* and leaves dir_fatalerr unchanged.
C3_RecordError ==
  [][(op' = "setlasterr" /\ arg' # NULL)
       => (lasterr' = arg' /\ dir_fatalerr' = dir_fatalerr)]_vars

(***************************************************************************)
(* Claims about the option parser and the scheduler                        *)
(***************************************************************************)

\* the number of raw tokens popped so far
Consumed == Len(argv0) - Len(argparser_state.argv)

\* what the loop of argv_parse was handed so far: out but for the result of
\* the call that skips the program name
Handed == IF out = <<>> THEN <<>> ELSE Tail(out)

IsPositionalResult(e) == e.r = 2

\* the positional arguments the loop was handed so far
Positionals == SelectSeq(Handed, IsPositionalResult)

\* C4: every flag of the command line interface is recognized by the option
\* parser: the parse never dies with "Unknown option" naming one of them
\* (--exclude-from among them).
C4_FlagsRecognized ==
  (pc = "died" /\ diekind = "unknown_option") => dietxt \notin CliFlags

\* C5: while ncurses is not initialized, a tick reads no input and returns
\* 0 (Continue) for every block policy, the blocking one (wait = 0) included.
C5_NoCursesContinue ==
  (tick.caller # "none" /\ tick.nc = 0) => (tick.reads = 0 /\ tick.ret = 0)

\* C5, as the code has it: while ncurses is not initialized, a tick reads no input and
\* returns at once: 0 (Continue) for the non-blocking policies (wait = 1 and
\* wait = -1), 1 (Terminate) for the blocking policy (wait = 0).
C5_NoCursesReturn ==
  (tick.caller # "none" /\ tick.nc = 0) =>
    /\ tick.reads = 0
    /\ ~tick.running
    /\ tick.ret = (IF tick.wait = 0 THEN 1 ELSE 0)

\* a throttled tick returned 0 without a read, ncurses not initialized
C5_Witness ==
  /\ tick.caller # "none" /\ tick.nc = 0 /\ ncurses_init = 0
  /\ tick.wait = 1 /\ tick.ret = 0 /\ tick.reads = 0

\* the draw handler and the key handler the claim gives every mode
DrawOf(m) ==
  CASE m = "ST_CALC" -> {"draw_error", "draw_progress"}
    [] m = "ST_BROWSE" -> {"browse_draw"}
    [] m = "ST_HELP" -> {"help_draw"}
    [] m = "ST_SHELL" -> {"shell_draw"}
    [] m = "ST_DEL" -> {"delete_draw"}
    [] m = "ST_QUIT" -> {"quit_draw"}

KeyOf(m) ==
  CASE m = "ST_CALC" -> "dir_key"
    [] m = "ST_BROWSE" -> "browse_key"
    [] m = "ST_HELP" -> "help_key"
    [] m = "ST_SHELL" -> "shell_key"
    [] m = "ST_DEL" -> "delete_key"
    [] m = "ST_QUIT" -> "quit_key"

ArgvSeparator == <<S("ncdu"), S("-x"), S("-q"), S("--"), S("-weird")>>

\* C7: once argparser_next has read a "--" as the separator, argsep stays
\* set, the separator itself is never returned, and every raw token after it
\* is returned as a positional argument (2) with its text unchanged, even if
\* it begins with "-"; -x -q -- -weird yields dir_scan_smfs = 1,
\* update_delay = 2000 and the single positional -weird.
C7_SeparatorSticky ==
  /\ sepAt # 0 =>
       /\ argv0[sepAt] = S("--")
       /\ argparser_state.argsep = 1
       /\ \A k \in DOMAIN out :
            /\ out[k].idx # sepAt
            /\ out[k].idx > sepAt =>
                 (out[k].r = 2 /\ out[k].last = argv0[out[k].idx])
       /\ \A j \in (sepAt + 1)..Consumed : \E k \in DOMAIN out : out[k].idx = j
  /\ (argv0 = ArgvSeparator /\ pc = "done") =>
       /\ conf.dir_scan_smfs = 1
       /\ update_delay = 2000
       /\ [k \in DOMAIN Positionals |-> Positionals[k].last] = <<S("-weird")>>
       /\ conf.dir = S("-weird")

\* -x -q -- -weird was parsed to its end
C7_Witness ==
  /\ argv0 = ArgvSeparator /\ pc = "done" /\ sepAt = 4
  /\ conf.dir = S("-weird")

\* C8: when the last option returned carries an attached value (--name=value)
\* that the caller did not ask for, the next call of argparser_next, also the
\* one that would find no token left, dies with "Option ... does not expect
\* an argument" naming that option.
C8_UnrequestedValue ==
  [][(/\ pc = "next"
      /\ Len(out) > 0
      /\ out[Len(out)].att # NULL
      /\ ~out[Len(out)].argreq)
       => (/\ pc' = "died"
           /\ diekind' = "no_arg_expected"
           /\ dietxt' = out[Len(out)].last)]_vars

\* --si=1 as the last argument: the call that would report the end died
C8_Witness ==
  /\ pc = "died" /\ diekind = "no_arg_expected" /\ dietxt = S("--si")
  /\ argv0 = <<S("ncdu"), S("--si=1")>> /\ argparser_state.argv = <<>>

ArgvExclude == <<S("ncdu"), S("--exclude"), S("*.tmp"), S("/home")>>

\* C9: an option's argument is the unconsumed rest of its short run (all of
\* it, which ends the run), else the value attached to the long option with
\* "=", else the next raw token whatever it looks like; if there is none of
\* the three the parse dies with "requires an argument" naming the option.
\* --exclude *.tmp /home yields one exclude option with value *.tmp, then the
\* positional /home.
C9_ArgumentSource ==
  /\ \A k \in DOMAIN out :
       out[k].argreq =>
         IF out[k].rem # NULL
           THEN /\ out[k].argval = out[k].rem
                /\ k < Len(out) => out[k + 1].idx > out[k].idx
         ELSE IF out[k].att # NULL
           THEN out[k].argval = out[k].att
         ELSE IF out[k].idx < Len(argv0)
           THEN /\ out[k].argval = argv0[out[k].idx + 1]
                /\ k < Len(out) => out[k + 1].idx > out[k].idx + 1
         ELSE /\ out[k].argval = NULL
              /\ k = Len(out)
              /\ pc = "died"
              /\ diekind = "requires_arg"
              /\ dietxt = out[k].last
  /\ (argv0 = ArgvExclude /\ pc = "done") =>
       /\ Len(out) = 3
       /\ out[2].r = 1 /\ out[2].last = S("--exclude") /\ out[2].argval = S("*.tmp")
       /\ out[3].r = 2 /\ out[3].last = S("/home")
       /\ conf.excludes = <<S("*.tmp")>>
       /\ conf.dir = S("/home")

\* --exclude *.tmp /home was parsed to its end
C9_Witness ==
  /\ argv0 = ArgvExclude /\ pc = "done"
  /\ conf.excludes = <<S("*.tmp")>>

\* the indices in out of what raw token i was returned as
EmittedFrom(i) == {k \in DOMAIN out : out[k].idx = i}

\* raw token i was read as a short-option run
IsShortRun(i) ==
  /\ EmittedFrom(i) # {}
  /\ \E k \in EmittedFrom(i) : out[k].r = 1
  /\ Len(argv0[i]) >= 2 /\ argv0[i][2] # "-"

\* the parser has gone past raw token i
WentPast(i) ==
  \/ pc \in {"finish", "done"}
  \/ \E k \in DOMAIN out : out[k].idx > i

\* C10: a short-option run of n letters is returned by successive calls of
\* argparser_next as option tokens, one per letter from left to right, never
\* as a positional argument; when no letter asks for a value all n letters
\* are returned before any later raw token is read (-rLx: -r, -L, -x).
C10_ShortRun ==
  \A i \in 1..Len(argv0) :
    IsShortRun(i) =>
      LET E == EmittedFrom(i)
          first == CHOOSE k \in E : \A j \in E : k <= j
          n == Len(argv0[i]) - 1
      IN /\ E = first..(first + Cardinality(E) - 1)
         /\ Cardinality(E) <= n
         /\ \A k \in E :
              /\ out[k].r = 1
              /\ out[k].last = <<"-", argv0[i][k - first + 2]>>
         /\ (WentPast(i) /\ \A k \in E : ~out[k].argreq) => Cardinality(E) = n

\* -rLx was parsed to its end: three options from one token
C10_Witness ==
  /\ argv0 = <<S("ncdu"), S("-rLx")>> /\ pc = "done"
  /\ Len(out) = 4
  /\ conf.read_only = 1 /\ conf.follow_symlinks = 1 /\ conf.dir_scan_smfs = 1

(***************************************************************************)
(* Claims about the throttle                                               *)
(***************************************************************************)

\* the last call of input_handle was a throttled one that had one before it
ThrottledAfterThrottled ==
  tick.caller # "none" /\ tick.wait = 1 /\ tick.pb # -1

\* C11: when two consecutive throttled ticks (input_handle(1)) compute the
\* same time bucket the later one does not redraw, and over a run of
\* throttled ticks that fall in one bucket the throttle redraws at most once.
C11_ThrottleOnce ==
  /\ (ThrottledAfterThrottled /\ tick.bucket = tick.pb) => ~tick.tdraw
  /\ tick.rundraws <= 1

\* a throttled tick repeated the bucket of the one before it, which had
\* redrawn, and did not redraw
C11_Witness ==
  /\ ThrottledAfterThrottled /\ tick.bucket = tick.pb
  /\ ~tick.tdraw /\ tick.rundraws = 1 /\ tick.ndraws = 0

\* C18: a throttled tick whose bucket repeats, or is lower than, the bucket
\* of the throttled tick before it does not redraw.
C18_NoRedrawOnBackJump ==
  (ThrottledAfterThrottled /\ tick.bucket <= tick.pb) => ~tick.tdraw

\* C18, as the code has it: a throttled tick redraws exactly when its bucket
\* differs from the bucket of the throttled tick before it, be it higher or
\* lower (a backward jump of the clock redraws), and records its bucket in
\* lastupdate either way; only a repeat of the bucket does not redraw.
C18_RedrawOnChange ==
  /\ ThrottledAfterThrottled =>
       /\ tick.tdraw <=> (tick.bucket # tick.pb)
       /\ tick.prev = tick.pb
  /\ (tick.caller # "none" /\ tick.wait = 1) => lastupdate = tick.bucket

\* the clock jumped back: the bucket is lower than the one before and the
\* tick redrew
C18_Witness ==
  /\ ThrottledAfterThrottled /\ tick.bucket < tick.pb
  /\ tick.tdraw /\ lastupdate = tick.bucket

(***************************************************************************)
(* Claims about the resize, the keys of the scan and the fatal error       *)
(***************************************************************************)

\* C12: a KEY_RESIZE is passed to no key handler; it makes input_handle call
\* ncresize, and when that fails min_rows and min_cols both become 0, the
\* mode is redrawn at once and the tick goes on reading input; in every
\* state <<min_rows, min_cols>> is <<17, 60>> or <<0, 0>>.
C12_Resize ==
  /\ tick.ch = "KEY_RESIZE" =>
       /\ tick.handler = "none"
       /\ tick.running /\ pc = "getch"
       /\ pstate = tick.chmode
       /\ tick.ndraws >= 1 /\ tick.view \in DrawOf(tick.chmode)
       /\ tick.rs = "fail" => (min_rows = 0 /\ min_cols = 0)
  /\ <<min_rows, min_cols>> \in {<<MinRowsInit, MinColsInit>>, <<0, 0>>}

\* ncresize() failed on the KEY_RESIZE that the first getch() returned: both
\* are 0 and the tick is still reading
C12_Witness ==
  /\ tick.ch = "KEY_RESIZE" /\ tick.rs = "fail" /\ tick.reads = 1
  /\ min_rows = 0 /\ min_cols = 0 /\ tick.running

\* C13: a key read while the scan is the mode goes to dir_key and to no
\* other handler: input_handle returns 1 (Terminate) for every key while
\* dir_fatalerr is set, 1 for the key q and 0 (Continue) for every other key
\* while it is not, and the mode stays what it was.
C13_ScanKey ==
  [][(/\ pc = "getch"
      /\ pstate = "ST_CALC"
      /\ tick'.reads = tick.reads + 1
      /\ tick'.ch \in Keys)
       => (/\ tick'.handler = "dir_key"
           /\ ~tick'.running
           /\ pstate' = "ST_CALC"
           /\ tick'.ndraws = tick.ndraws
           /\ tick'.ret = (IF dir_fatalerr # NULL THEN 1
                           ELSE IF tick'.ch = "q" THEN 1 ELSE 0))]_vars

\* a key other than q was read during a fatal error of the scan and the tick
\* returned 1
C13_Witness ==
  /\ tick.ch = "x" /\ tick.chmode = "ST_CALC" /\ tick.handler = "dir_key"
  /\ tick.ret = 1 /\ ~tick.running /\ dir_fatalerr # NULL

\* C14: dir_seterr with a message leaves in dir_fatalerr the new message
\* alone (what of it fits the buffer: its first 1022 characters), whatever
\* fatal error was set before; after dir_seterr(NULL) dir_fatalerr is NULL,
\* and a draw of the scan mode while dir_fatalerr is NULL is the progress
\* view, not the error box.
C14_FatalErrReplaced ==
  /\ [](op = "seterr" =>
         dir_fatalerr = IF arg = NULL THEN NULL
                        ELSE IF Len(arg) <= FatalErrAlloc - 2 THEN arg
                        ELSE SubSeq(arg, 1, FatalErrAlloc - 2))
  /\ [][op' = "draw" =>
          tick'.view = IF dir_fatalerr = NULL THEN "draw_progress"
                       ELSE "draw_error"]_vars

\* the scan was drawn right after a dir_seterr that left no fatal error: the
\* progress view
C14_Witness ==
  /\ op = "draw" /\ arg = <<"seterr">> /\ dir_fatalerr = NULL
  /\ tick.view = "draw_progress"

\* C15: with ncurses initialized, a tick whose getch() returns ERR with errno
\* EPIPE, EBADF or EIO returns 1 (Terminate), which ends main()'s loop when
\* main() made the call; one whose getch() returns ERR with no such errno
\* (no input pending) returns 0 (Continue).
C15_EndOfInput ==
  tick.ch = "ERR" =>
    /\ tick.nc = 1 /\ ~tick.running
    /\ tick.ret = (IF tick.eno \in {"EPIPE", "EBADF", "EIO"} THEN 1 ELSE 0)
    /\ tick.eno \in Errnos
    /\ (tick.caller = "main" /\ tick.ret = 1) => pc = "exited"

\* the read of a tick called by main() failed with EIO: the loop ended
C15_Witness ==
  /\ tick.ch = "ERR" /\ tick.eno = "EIO" /\ tick.ret = 1
  /\ tick.caller = "main" /\ pc = "exited"

(***************************************************************************)
(* Further claims about the path / error tracker                           *)
(***************************************************************************)

HasSlash(s) == \E i \in 1..Len(s) : s[i] = "/"

\* s up to, and without, its last "/"
BeforeLastSlash(s) ==
  LET k == CHOOSE i \in 1..Len(s) :
             s[i] = "/" /\ \A j \in (i + 1)..Len(s) : s[j] # "/"
  IN SubSeq(s, 1, k - 1)

\* C16: dir_curpath_leave leaves "/" unchanged, makes "/" of a path without
\* "/", makes "/" of a path whose only "/" is its first character ("/x"),
\* and otherwise removes the last "/" and everything after it.
C16_LeaveEdges ==
  op = "leave" =>
    dir_curpath =
      IF pre = <<"/">> THEN <<"/">>
      ELSE IF ~HasSlash(pre) THEN <<"/">>
      ELSE IF pre[1] = "/" /\ ~HasSlash(Tail(pre)) THEN <<"/">>
      ELSE BeforeLastSlash(pre)

\* dir_curpath_leave on "/a": the leading slash is kept
C16_Witness ==
  /\ op = "leave" /\ pre = <<"/", "a">> /\ dir_curpath = <<"/">>

\* C17: when every path passed to dir_curpath_set is an absolute path in
\* normal form, dir_curpath, after any sequence of dir_curpath_enter and
\* dir_curpath_leave, begins with "/" and has no trailing "/" unless it is
\* "/".
C17_WellFormed ==
  dir_curpath # NULL =>
    /\ Len(dir_curpath) >= 1
    /\ dir_curpath[1] = "/"
    /\ Len(dir_curpath) > 1 => dir_curpath[Len(dir_curpath)] # "/"

\* "/" was entered twice and left once
C17_Witness ==
  /\ op = "leave" /\ pre = <<"/", "a", "/", "b">> /\ dir_curpath = <<"/", "a">>
  /\ ~segv

(***************************************************************************)
(* Further claims about the option parser                                  *)
(***************************************************************************)

\* C19: the call of argparser_next that skips the program name consumes the
\* program name alone and leaves the parser as it was zeroed, whatever the
\* name is: no short-option run pending, no attached value pending, argsep
\* clear, and no fatal error.
C19_ProgNameDiscarded ==
  [][(pc = "start" /\ Len(argv0) >= 1)
       => (/\ pc' = "next"
           /\ argparser_state'.argv = Tail(argv0)
           /\ argparser_state'.shortopt = NULL
           /\ argparser_state'.last_arg = NULL
           /\ argparser_state'.argsep = 0)]_vars

(***************************************************************************)
(* The buffer of lasterr                                                   *)
(***************************************************************************)

\* C20: the string in lasterr fits the buffer dir_setlasterr sized for it:
\* its length + 1 is at most lasterrl, after any sequence of
\* dir_curpath_set / enter / leave, dir_setlasterr and dir_seterr.
C20_LastErrFits ==
  lasterr # NULL => Len(lasterr) + 1 <= lasterrl

====
